---- MODULE Spec2Model ----
(***************************************************************************)
(* A model of the Garmin sleep-data tools:                                 *)
(*   utils/garminclient.py  daterange, GClient.get_sleep_data,             *)
(*                          GClient.get_bulk_sleep_data                    *)
(*   sleep/downloader.py    SleepDownloader.dto_to_df, last_n_days         *)
(*   sleep/sleepplot.py     SleepPlot.make_relative, seconds_to_time,      *)
(*                          the formatters, clean_data, create_traces      *)
(*                                                                         *)
(* A datetime is [day, sec]: the calendar day as a day number and the time *)
(* of day in whole seconds.  A timedelta is [days, seconds], normalised as *)
(* Python normalises it (0 <= seconds < 86400, days of either sign).       *)
(* A missing value (None, NaN, NaT) is Null; a present value v is Some(v). *)
(***************************************************************************)
EXTENDS Integers, Sequences, FiniteSets, TLC

VARIABLES
    \* ---- the fetcher (garminclient.py, downloader.py last_n_days)
    pc,        \* "idle" | "loop" | "returned" | "raised"
    op,        \* entry point of the run: "none" | "bulk" | "last_n_days"
    nArg,      \* the n given to last_n_days (0 for a direct bulk call)
    start,     \* start, as a datetime, after the isinstance/fromisoformat step
    end,       \* end, likewise
    dates,     \* the datetimes daterange yields, in order
    calls,     \* date strings sent to the wellness service, in call order
    data,      \* the list get_bulk_sleep_data accumulates
    result,    \* Null until the call returns, then Some(list)
    error,     \* Null, or Some(date) of the request the service failed
    \* ---- the relative-time functions (sleepplot.py)
    tpc,       \* "input" | "relative" | "roundtrip" | "formatted"
    dt,        \* the datetime argument
    date,      \* the date argument (a datetime; only its day is used)
    secs,      \* Some(result of make_relative), or the nullable formatter input
    back,      \* Some(result of seconds_to_time) or Null
    delta,     \* nullable timedelta given to format_timedelta
    text,      \* the two formatters' outputs
    \* ---- the table pipeline (dto_to_df, clean_data, create_traces)
    dpc,       \* "collect" | "flat" | "clean" | "traced" | "failed"
    via,       \* how the table was made: "none" | "dto_to_df" | "df"
    payloads,  \* raw per-day payloads, the input of dto_to_df
    df,        \* the table: [raised, columns, rows]
    hover      \* customdata of the traces create_traces adds

fetchVars == <<pc, op, nArg, start, end, dates, calls, data, result, error>>
timeVars  == <<tpc, dt, date, secs, back, delta, text>>
tableVars == <<dpc, via, payloads, df, hover>>
vars      == <<fetchVars, timeVars, tableVars>>

Null    == <<>>
Some(v) == <<v>>

\* ---- bounds
MaxDay  == 3     \* calendar days 0..MaxDay are drawn as inputs
MaxN    == 3     \* last_n_days is called with n in 0..MaxN

\* seconds in a day (datetime arithmetic; the tick range of update_layout)
SecondsPerDay == 86400
\* times of day drawn as inputs: midnight, 01:00, 07:15, 23:00, 23:59:59
TimesOfDay == {0, 3600, 26100, 82800, 86399}
Days       == 0..MaxDay
Datetimes  == [day : Days, sec : TimesOfDay]

(***************************************************************************)
(* datetime / timedelta arithmetic of the Python standard library          *)
(***************************************************************************)
\* timedelta(seconds=s): normalised to days and 0 <= seconds < 86400
timedelta(s) == [days |-> s \div SecondsPerDay, seconds |-> s % SecondsPerDay]
\* timedelta.total_seconds()
total_seconds(td) == td.days * SecondsPerDay + td.seconds
\* datetime - datetime
dt_sub(a, b) == timedelta((a.day - b.day) * SecondsPerDay + (a.sec - b.sec))
\* datetime + timedelta
dt_add(a, td) ==
    LET s == a.sec + td.seconds
    IN  [day |-> a.day + td.days + s \div SecondsPerDay, sec |-> s % SecondsPerDay]
\* datetime - timedelta
dt_minus(a, td) == dt_add(a, timedelta(-total_seconds(td)))
\* timedelta(days=n)
days_delta(n) == [days |-> n, seconds |-> 0]

(***************************************************************************)
(* utils/garminclient.py                                                   *)
(***************************************************************************)
\* Arguments of get_bulk_sleep_data: a datetime, or an ISO string with or
\* without a time part.
StrArgs == [kind : {"str"}, day : Days, tod : {Null} \cup {Some(t) : t \in TimesOfDay}]
DtArgs  == [kind : {"datetime"}, day : Days, sec : TimesOfDay]
Args    == StrArgs \cup DtArgs

\* datetime.fromisoformat: a date-only string parses to midnight
fromisoformat(s) == [day |-> s.day, sec |-> IF s.tod = Null THEN 0 ELSE s.tod[1]]

\* lines 35-39: strings are parsed, datetimes pass through
as_datetime(a) ==
    IF a.kind = "str" THEN fromisoformat(a) ELSE [day |-> a.day, sec |-> a.sec]

\* range(k): empty for k <= 0
range_len(k) == IF k > 0 THEN k ELSE 0

\* daterange(start_date, end_date): the sequence of values it yields
daterange(start_date, end_date) ==
    LET end1 == dt_add(end_date, days_delta(1))
        k    == range_len(dt_sub(end1, start_date).days)
    IN  [i \in 1..k |-> dt_add(start_date, days_delta(i - 1))]

\* date.strftime("%Y-%m-%d"): the calendar day of a datetime
strftime_ymd(d) == d.day

\* response.json() of the wellness service for one date
response_json(day) == [calendarDate |-> day]

\* the formatters have not run
NoText == [seconds |-> Null, relative |-> "", timedelta |-> ""]

FetchIdle ==
    /\ pc = "idle" /\ op = "none" /\ nArg = 0
    /\ start = [day |-> 0, sec |-> 0] /\ end = [day |-> 0, sec |-> 0]
    /\ dates = <<>> /\ calls = <<>> /\ data = <<>>
    /\ result = Null /\ error = Null

\* get_bulk_sleep_data up to the loop: parse the arguments, data = []
bulk_enter(s, e) ==
    /\ start' = s
    /\ end' = e
    /\ dates' = daterange(s, e)
    /\ calls' = <<>>
    /\ data' = <<>>
    /\ result' = Null
    /\ error' = Null
    /\ pc' = "loop"

get_bulk_sleep_data(a, b) ==
    /\ pc = "idle"
    /\ op' = "bulk"
    /\ nArg' = 0
    /\ bulk_enter(as_datetime(a), as_datetime(b))
    /\ UNCHANGED <<timeVars, tableVars>>

\* SleepDownloader.last_n_days(n), today = datetime.today()
last_n_days(n, today) ==
    /\ pc = "idle"
    /\ op' = "last_n_days"
    /\ nArg' = n
    /\ bulk_enter(dt_minus(today, days_delta(n)), today)
    /\ UNCHANGED <<timeVars, tableVars>>

\* one loop iteration whose get_sleep_data call succeeds
get_sleep_data_ok ==
    /\ pc = "loop"
    /\ Len(calls) < Len(dates)
    /\ LET d == strftime_ymd(dates[Len(calls) + 1])
       IN  /\ calls' = Append(calls, d)
           /\ data' = Append(data, response_json(d))
    /\ UNCHANGED <<pc, op, nArg, start, end, dates, result, error>>
    /\ UNCHANGED <<timeVars, tableVars>>

\* faulty variant: the loop swallows the failure and goes on to the next day
get_sleep_data_caught ==
    /\ pc = "loop"
    /\ Len(calls) < Len(dates)
    /\ LET d == strftime_ymd(dates[Len(calls) + 1])
       IN  /\ calls' = Append(calls, d)
           /\ error' = Some(d)
    /\ UNCHANGED <<pc, op, nArg, start, end, dates, data, result>>
    /\ UNCHANGED <<timeVars, tableVars>>

\* one loop iteration whose get_sleep_data call fails: nothing catches the
\* exception, it leaves get_bulk_sleep_data (and last_n_days)
get_sleep_data_raises ==
    /\ pc = "loop"
    /\ Len(calls) < Len(dates)
    /\ LET d == strftime_ymd(dates[Len(calls) + 1])
       IN  /\ calls' = Append(calls, d)
           /\ error' = Some(d)
    /\ pc' = "raised"
    /\ UNCHANGED <<op, nArg, start, end, dates, data, result>>
    /\ UNCHANGED <<timeVars, tableVars>>

\* the loop is exhausted: return data
bulk_return ==
    /\ pc = "loop"
    /\ Len(calls) = Len(dates)
    /\ result' = Some(data)
    /\ pc' = "returned"
    /\ UNCHANGED <<op, nArg, start, end, dates, calls, data, error>>
    /\ UNCHANGED <<timeVars, tableVars>>

FetchNext ==
    \/ \E a \in Args, b \in Args : get_bulk_sleep_data(a, b)
    \/ \E n \in 0..MaxN, today \in Datetimes : last_n_days(n, today)
    \/ get_sleep_data_ok
    \/ get_sleep_data_raises
    \/ bulk_return

TimeIdle ==
    /\ tpc = "input"
    /\ dt = [day |-> 0, sec |-> 0] /\ date = [day |-> 0, sec |-> 0]
    /\ secs = Null /\ back = Null /\ delta = Null
    /\ text = NoText

\* no table yet, no traces yet
NoTable == [raised |-> "", columns |-> {}, rows |-> <<>>]
NoHover == [avg_wakeup |-> <<>>, avg_bedtime |-> <<>>, sleep_time |-> <<>>]

TableIdle ==
    /\ dpc = "collect" /\ via = "none" /\ payloads = <<>>
    /\ df = NoTable
    /\ hover = NoHover

FetchInit == FetchIdle /\ TimeIdle /\ TableIdle

SpecFetch == FetchInit /\ [][FetchNext]_vars

\* the days start.day .. end.day, ascending
DaysBetween(a, b) == [i \in 1..range_len(b.day - a.day + 1) |-> a.day + i - 1]
Responses(ds) == [i \in 1..Len(ds) |-> response_json(ds[i])]

\* C1: a bulk call whose start day is not after its end day fetches every
\* calendar day of [start, end] exactly once, ascending, and returns those
\* records in that order.
C1_BulkCoversEveryDay ==
    (pc = "returned" /\ op = "bulk" /\ start.day <= end.day) =>
        /\ calls = DaysBetween(start, end)
        /\ result = Some(Responses(DaysBetween(start, end)))

\* C2: when the single-day fetch fails, the failure leaves
\* get_bulk_sleep_data: the failed request is the last one issued and no
\* list, partial or otherwise, is returned.
C2_FailurePropagates ==
    error /= Null =>
        /\ pc = "raised"
        /\ result = Null
        /\ calls /= <<>> /\ calls[Len(calls)] = error[1]
        /\ Len(data) = Len(calls) - 1

\* a failure after some records were fetched and with days still to go
C2_Witness ==
    /\ pc = "raised" /\ error /= Null
    /\ Len(data) >= 1
    /\ Len(calls) < Len(dates)

\* C10: last_n_days(n) issues n single-day fetches and returns n records.
C10_LastNDaysFetchesN ==
    (pc = "returned" /\ op = "last_n_days") =>
        /\ Len(calls) = nArg
        /\ Len(result[1]) = nArg

(***************************************************************************)
(* sleep/sleepplot.py: the relative-time functions and the formatters      *)
(***************************************************************************)
\* datetime.datetime.combine(date, datetime.datetime.min.time())
midnight(d) == [day |-> d.day, sec |-> 0]

\* faulty variant: the difference is returned without the negation
make_relative_unsigned(t, d) == total_seconds(dt_sub(t, midnight(d)))

\* SleepPlot.make_relative(dt, date)
make_relative(t, d) == -total_seconds(dt_sub(t, midnight(d)))

\* faulty variant: the offset is added to midnight instead of subtracted
seconds_to_time_added(s, d) == dt_add(midnight(d), timedelta(s))

\* SleepPlot.seconds_to_time(s, date)
seconds_to_time(s, d) == dt_minus(midnight(d), timedelta(s))

\* f"{n:02d}"
pad2(n) == IF n < 10 THEN "0" \o ToString(n) ELSE ToString(n)

\* SleepPlot.datetime_to_12hr(dt): strftime("%I:%M %p")
datetime_to_12hr(t) ==
    LET h   == t.sec \div 3600
        m   == (t.sec % 3600) \div 60
        h12 == IF h % 12 = 0 THEN 12 ELSE h % 12
    IN  pad2(h12) \o ":" \o pad2(m) \o (IF h < 12 THEN " AM" ELSE " PM")

\* pd.isnull(x)
isnull(x) == x = Null

\* faulty variant: no pd.isnull guard, timedelta(seconds=None) raises
format_relative_seconds_unguarded(s, d) ==
    IF s = Null THEN "TypeError" ELSE datetime_to_12hr(seconds_to_time(s[1], d))

\* SleepPlot.format_relative_seconds(seconds, date); seconds is nullable
format_relative_seconds(s, d) ==
    IF isnull(s) THEN "" ELSE datetime_to_12hr(seconds_to_time(s[1], d))

\* SleepPlot.format_timedelta(x); x is a nullable timedelta, .components
\* gives the hours and minutes within the day
format_timedelta(x) ==
    IF ~isnull(x)
    THEN pad2(x[1].seconds \div 3600) \o ":" \o pad2((x[1].seconds % 3600) \div 60)
    ELSE ""

\* durations drawn as inputs of format_timedelta: 0, 7h15m, 25h
Durations == {0, 26100, 90000}

TimeInit ==
    /\ tpc = "input"
    /\ dt \in Datetimes
    /\ date \in Datetimes
    /\ delta \in {Null} \cup {Some(timedelta(s)) : s \in Durations}
    /\ secs = Null /\ back = Null
    /\ text = NoText
    /\ FetchIdle /\ TableIdle

apply_make_relative ==
    /\ tpc = "input"
    /\ secs' = Some(make_relative(dt, date))
    /\ tpc' = "relative"
    /\ UNCHANGED <<dt, date, back, delta, text>>
    /\ UNCHANGED <<fetchVars, tableVars>>

apply_seconds_to_time ==
    /\ tpc = "relative"
    /\ back' = Some(seconds_to_time(secs[1], date))
    /\ tpc' = "roundtrip"
    /\ UNCHANGED <<dt, date, secs, delta, text>>
    /\ UNCHANGED <<fetchVars, tableVars>>

\* both formatters, on a missing value or on the value computed above
apply_formatters(s) ==
    /\ tpc = "roundtrip"
    /\ text' = [seconds   |-> s,
                relative  |-> format_relative_seconds(s, date),
                timedelta |-> format_timedelta(delta)]
    /\ tpc' = "formatted"
    /\ UNCHANGED <<dt, date, secs, back, delta>>
    /\ UNCHANGED <<fetchVars, tableVars>>

TimeNext ==
    \/ apply_make_relative
    \/ apply_seconds_to_time
    \/ \E s \in {Null, secs} : apply_formatters(s)

SpecTime == TimeInit /\ [][TimeNext]_vars

C4_NegatedOffset ==
    tpc /= "input" =>
        LET after  == dt.day > date.day \/ (dt.day = date.day /\ dt.sec > 0)
            before == dt.day < date.day
            r      == secs[1]
        IN  /\ secs /= Null
            /\ r + (dt.day - date.day) * SecondsPerDay + dt.sec = 0
            /\ after => r < 0
            /\ before => r > 0
            /\ (~after /\ ~before) => r = 0
            /\ (dt.day = date.day /\ dt.sec = 26100) => r = -26100

\* 23:00 of the previous day gives +3600
C4_Witness ==
    /\ tpc = "relative" /\ dt.day = date.day - 1 /\ dt.sec = 82800
    /\ secs = Some(3600)

(***************************************************************************)
(* sleep/downloader.py dto_to_df; sleep/sleepplot.py clean_data,           *)
(* create_traces                                                           *)
(***************************************************************************)
MaxRows   == 8   \* at most MaxRows raw payloads are collected
MaxNoIdAt == 2   \* the id key is absent only among the first MaxNoIdAt payloads
MaxNoData == 2   \* at most MaxNoData payloads of a list are days without data

\* window of the rolling means
RollingWindow == 7
MsPerSecond   == 1000

DtoKeys == {"id", "calendarDate", "sleepStartTimestampLocal",
            "sleepEndTimestampLocal", "sleepTimeSeconds"}

\* epoch milliseconds of a time of day `sec` on calendar day `day`
epoch_ms(day, sec) == (day * SecondsPerDay + sec) * MsPerSecond

\* The raw payloads drawn as inputs; i is the payload's place in the list.
\*   "asc"    a night of day i, to bed between 23:15 the evening before and
\*            01:15, up at 07:15
\*   "desc"   a night of day MaxRows + 1 - i (so the list is out of date
\*            order and may repeat a date), to bed 01:00, up at 07:15
\*   "nullid" a day without data: id null, the sleep fields null
\*   "noid"   a day without data: the id key is absent
PayloadKinds == {"asc", "desc", "nullid", "noid"}
Payload(kind, i) ==
    LET day  == IF kind = "desc" THEN MaxRows + 1 - i ELSE i
        bed  == IF kind = "desc" THEN 3600 ELSE 900 * i - 3600
        full == [k \in DtoKeys |->
                   CASE k = "id" -> Some(100 + i)
                     [] k = "calendarDate" -> Some(day)
                     [] k = "sleepStartTimestampLocal" -> Some(epoch_ms(day, bed))
                     [] k = "sleepEndTimestampLocal" -> Some(epoch_ms(day, 26100))
                     [] OTHER -> Some(26100 - bed)]
        none == [k \in DtoKeys |-> IF k = "calendarDate" THEN Some(day) ELSE Null]
    IN  [dailySleepDTO |->
           CASE kind = "nullid" -> none
             [] kind = "noid" -> [k \in DtoKeys \ {"id"} |-> none[k]]
             [] OTHER -> full]

\* dict.get(key): None for a missing key
dict_get(d, k) == IF k \in DOMAIN d THEN d[k] ELSE Null

\* the payloads that carry an id
HasId(p) == "id" \in DOMAIN p.dailySleepDTO /\ p.dailySleepDTO["id"] /= Null

\* the dto_data loop and pd.DataFrame.from_dict: one column per key of the
\* first payload's dailySleepDTO, one row per payload
from_dict(ps) ==
    LET cols == DOMAIN ps[1].dailySleepDTO
    IN  [raised  |-> "",
         columns |-> cols,
         rows    |-> [i \in 1..Len(ps) |->
                        [k \in cols |-> dict_get(ps[i].dailySleepDTO, k)]]]

IdPresent(r) == r["id"] /= Null

\* faulty variant: dropna drops nothing
dropna_id_keeps_all(t) ==
    IF "id" \notin t.columns
    THEN [raised |-> "KeyError", columns |-> {}, rows |-> <<>>]
    ELSE t

\* df.dropna(subset=["id"]): KeyError when there is no id column
dropna_id(t) ==
    IF "id" \notin t.columns
    THEN [raised |-> "KeyError", columns |-> {}, rows |-> <<>>]
    ELSE [t EXCEPT !.rows = SelectSeq(t.rows, IdPresent)]

\* SleepDownloader.dto_to_df(data)
dto_to_df(ps) == dropna_id(from_dict(ps))

\* pd.to_datetime(calendarDate, format="%Y-%m-%d")
to_datetime_ymd(v) == IF v = Null THEN Null ELSE Some([day |-> v[1], sec |-> 0])

\* pd.to_datetime(ts, unit='ms')
to_datetime_ms(v) ==
    IF v = Null THEN Null
    ELSE Some([day |-> v[1] \div (SecondsPerDay * MsPerSecond),
               sec |-> (v[1] % (SecondsPerDay * MsPerSecond)) \div MsPerSecond])

\* pd.to_timedelta(s, unit='s')
to_timedelta_s(v) == IF v = Null THEN Null ELSE Some(timedelta(v[1]))

\* lines 56-59: the date, bedtime, wakeup and sleeptime columns
with_datetimes(r) ==
    [id        |-> r["id"],
     date      |-> to_datetime_ymd(r["calendarDate"]),
     bedtime   |-> to_datetime_ms(r["sleepStartTimestampLocal"]),
     wakeup    |-> to_datetime_ms(r["sleepEndTimestampLocal"]),
     sleeptime |-> to_timedelta_s(r["sleepTimeSeconds"])]

\* order of the date column; a missing date sorts last
date_le(a, b) ==
    \/ b = Null
    \/ a /= Null /\ (a[1].day < b[1].day \/ (a[1].day = b[1].day /\ a[1].sec <= b[1].sec))

InsertAt(s, k, r) == SubSeq(s, 1, k - 1) \o <<r>> \o SubSeq(s, k, Len(s))

\* the places where r may go into the sorted s
Insertions(r, s) ==
    {InsertAt(s, k, r) : k \in {j \in 1..(Len(s) + 1) :
        /\ (j = 1 \/ date_le(s[j - 1].date, r.date))
        /\ (j = Len(s) + 1 \/ date_le(r.date, s[j].date))}}

RECURSIVE AllSorts(_)
AllSorts(s) ==
    IF s = <<>> THEN {<<>>}
    ELSE UNION {Insertions(Head(s), t) : t \in AllSorts(Tail(s))}

\* faulty variant: the rows are left in input order
sort_values_skipped(rs) == {rs}

\* df.sort_values("date"): the sort is not stable, so rows of equal date
\* may come out in any order
sort_values(rs) == AllSorts(rs)

\* row.apply of make_relative; a missing time gives a missing value
relative(t, d) == IF t = Null \/ d = Null THEN Null ELSE Some(make_relative(t[1], d[1]))

\* lines 65-70: r_bedtime, r_wakeup, f_bedtime, f_wakeup
with_relative(r) ==
    LET rb == relative(r.bedtime, r.date)
        rw == relative(r.wakeup, r.date)
    IN  [id |-> r.id, date |-> r.date, bedtime |-> r.bedtime, wakeup |-> r.wakeup,
         sleeptime |-> r.sleeptime,
         r_bedtime |-> rb, r_wakeup |-> rw,
         f_bedtime |-> IF r.date = Null THEN "" ELSE format_relative_seconds(rb, r.date[1]),
         f_wakeup  |-> IF r.date = Null THEN "" ELSE format_relative_seconds(rw, r.date[1])]

RECURSIVE SumSeq(_)
SumSeq(s) == IF s = <<>> THEN 0 ELSE Head(s)[1] + SumSeq(Tail(s))

\* faulty variant: min_periods=1, the mean of the rows seen so far
rolling_mean_min_periods_1(col, i) ==
    LET lo == IF i > RollingWindow THEN i - RollingWindow + 1 ELSE 1
        w  == SubSeq(col, lo, i)
    IN  Some([num |-> SumSeq(w), den |-> Len(w)])

\* Series.rolling(7).mean() at row i (from 1): missing until the window
\* holds 7 values, and when a value in it is missing; else the mean, kept
\* as the fraction num/den
rolling_mean(col, i) ==
    IF i < RollingWindow \/ \E j \in (i - RollingWindow + 1)..i : col[j] = Null
    THEN Null
    ELSE Some([num |-> SumSeq(SubSeq(col, i - RollingWindow + 1, i)),
               den |-> RollingWindow])

\* lines 73-74: rm_bedtime, rm_wakeup
with_rolling(rs) ==
    LET rb == [i \in 1..Len(rs) |-> rs[i].r_bedtime]
        rw == [i \in 1..Len(rs) |-> rs[i].r_wakeup]
    IN  [i \in 1..Len(rs) |->
           [id |-> rs[i].id, date |-> rs[i].date, bedtime |-> rs[i].bedtime,
            wakeup |-> rs[i].wakeup, sleeptime |-> rs[i].sleeptime,
            r_bedtime |-> rs[i].r_bedtime, r_wakeup |-> rs[i].r_wakeup,
            f_bedtime |-> rs[i].f_bedtime, f_wakeup |-> rs[i].f_wakeup,
            rm_bedtime |-> rolling_mean(rb, i),
            rm_wakeup  |-> rolling_mean(rw, i)]]

CleanColumns == {"id", "date", "bedtime", "wakeup", "sleeptime", "r_bedtime",
                 "r_wakeup", "f_bedtime", "f_wakeup", "rm_bedtime", "rm_wakeup"}

TableInit ==
    /\ dpc = "collect" /\ via = "none" /\ payloads = <<>>
    /\ df = NoTable
    /\ hover = NoHover
    /\ FetchIdle /\ TimeIdle

\* one more raw payload in the list handed to the flattener
collect(kind) ==
    /\ dpc = "collect"
    /\ Len(payloads) < MaxRows
    /\ kind = "noid" => Len(payloads) < MaxNoIdAt
    /\ kind \in {"nullid", "noid"} =>
          Len(payloads) - Len(SelectSeq(payloads, HasId)) < MaxNoData
    /\ payloads' = Append(payloads, Payload(kind, Len(payloads) + 1))
    /\ UNCHANGED <<dpc, via, df, hover>>
    /\ UNCHANGED <<fetchVars, timeVars>>

\* SleepDownloader.dto_to_df(data), data not empty; the table goes to SleepPlot
apply_dto_to_df ==
    /\ dpc = "collect"
    /\ payloads /= <<>>
    /\ df' = dto_to_df(payloads)
    /\ dpc' = IF df'.raised = "" THEN "flat" ELSE "failed"
    /\ via' = "dto_to_df"
    /\ UNCHANGED <<payloads, hover>>
    /\ UNCHANGED <<fetchVars, timeVars>>

\* SleepPlot(df=...): a table with the raw columns made elsewhere, rows
\* without an id still in it
SleepPlot_df ==
    /\ dpc = "collect"
    /\ payloads /= <<>>
    /\ DOMAIN payloads[1].dailySleepDTO = DtoKeys
    /\ df' = from_dict(payloads)
    /\ dpc' = "flat"
    /\ via' = "df"
    /\ UNCHANGED <<payloads, hover>>
    /\ UNCHANGED <<fetchVars, timeVars>>

\* SleepPlot.clean_data(): drop the rows without id, add the datetime
\* columns, sort by date, add the relative, formatted and rolling columns
clean_data ==
    /\ dpc = "flat"
    /\ LET kept  == dropna_id(df).rows
           dated == [i \in 1..Len(kept) |-> with_datetimes(kept[i])]
       IN  \E sorted \in sort_values(dated) :
              df' = [raised  |-> "",
                     columns |-> CleanColumns,
                     rows    |-> with_rolling(
                                   [i \in 1..Len(sorted) |-> with_relative(sorted[i])])]
    /\ dpc' = "clean"
    /\ UNCHANGED <<via, payloads, hover>>
    /\ UNCHANGED <<fetchVars, timeVars>>

\* the whole second a time midnight - q falls in, q a fraction of seconds
whole_seconds(q) == -((-q.num) \div q.den)

\* row.apply of format_relative_seconds to a rolling mean
format_mean(rm, d) ==
    format_relative_seconds(IF rm = Null THEN Null ELSE Some(whole_seconds(rm[1])), d[1])

\* SleepPlot.create_traces(): the customdata of the three line traces
create_traces ==
    /\ dpc = "clean"
    /\ hover' = [avg_wakeup  |-> [i \in 1..Len(df.rows) |->
                                    format_mean(df.rows[i].rm_wakeup, df.rows[i].date)],
                 avg_bedtime |-> [i \in 1..Len(df.rows) |->
                                    format_mean(df.rows[i].rm_bedtime, df.rows[i].date)],
                 sleep_time  |-> [i \in 1..Len(df.rows) |->
                                    format_timedelta(df.rows[i].sleeptime)]]
    /\ dpc' = "traced"
    /\ UNCHANGED <<via, payloads, df>>
    /\ UNCHANGED <<fetchVars, timeVars>>

TableNext ==
    \/ \E kind \in PayloadKinds : collect(kind)
    \/ apply_dto_to_df
    \/ SleepPlot_df
    \/ clean_data
    \/ create_traces

SpecTable == TableInit /\ [][TableNext]_vars

IdsOf(rs) == {rs[i]["id"] : i \in 1..Len(rs)}
Cleaned == dpc \in {"clean", "traced"}

\* C5: for a non-empty list of payloads dto_to_df returns a table whose
\* columns are the keys of the first payload's dailySleepDTO and whose rows
\* are, in input order, the values of exactly the payloads with a non-null
\* id.
C5_FlattenKeepsRowsWithId ==
    (via = "dto_to_df" /\ dpc \in {"flat", "failed"}) =>
        LET cols == DOMAIN payloads[1].dailySleepDTO
            kept == SelectSeq(payloads, HasId)
        IN  /\ df.raised = ""
            /\ df.columns = cols
            /\ df.rows = [i \in 1..Len(kept) |->
                            [k \in cols |-> dict_get(kept[i].dailySleepDTO, k)]]

RECURSIVE SumRange(_, _, _)
SumRange(f, lo, hi) == IF lo > hi THEN 0 ELSE f[lo] + SumRange(f, lo + 1, hi)

\* C6: after clean_data the rolling means are missing in the first 6 rows
\* and, from the 7th row on, 7 times the rolling mean of row i is the sum of
\* the 7 relative values of rows i-6..i (bedtime and wakeup alike).
C6_RollingMean ==
    Cleaned =>
        LET rb == [i \in 1..Len(df.rows) |-> df.rows[i].r_bedtime[1]]
            rw == [i \in 1..Len(df.rows) |-> df.rows[i].r_wakeup[1]]
        IN  \A i \in 1..Len(df.rows) :
              LET mb == df.rows[i].rm_bedtime
                  mw == df.rows[i].rm_wakeup
              IN  IF i <= 6
                  THEN mb = Null /\ mw = Null
                  ELSE /\ mb /= Null /\ mw /= Null
                       /\ 7 * mb[1].num = mb[1].den * SumRange(rb, i - 6, i)
                       /\ 7 * mw[1].num = mw[1].den * SumRange(rw, i - 6, i)

\* a table of more than 7 rows whose bedtimes differ
C6_Witness ==
    /\ dpc = "clean" /\ Len(df.rows) >= 8
    /\ df.rows[6].rm_bedtime = Null
    /\ df.rows[8].rm_bedtime /= Null
    /\ df.rows[7].rm_bedtime /= df.rows[8].rm_bedtime

\* C7: the table clean_data leaves has no row without an id, is sorted
\* non-decreasing by date, and holds exactly the input rows that have an id;
\* the rolling means are those of the rows in that sorted order.
C7_SortedAndRetained ==
    Cleaned =>
        /\ \A i \in 1..Len(df.rows) :
              df.rows[i].rm_bedtime =
                 rolling_mean([j \in 1..Len(df.rows) |-> df.rows[j].r_bedtime], i)
        /\ \A i \in 1..Len(df.rows) : df.rows[i].id /= Null
        /\ \A i \in 1..(Len(df.rows) - 1) :
              /\ df.rows[i].date /= Null /\ df.rows[i + 1].date /= Null
              /\ df.rows[i].date[1].day <= df.rows[i + 1].date[1].day
        /\ Len(df.rows) = Len(SelectSeq(payloads, HasId))
        /\ IdsOf(df.rows) = {p.dailySleepDTO["id"] : p \in
                               {payloads[i] : i \in {j \in 1..Len(payloads) : HasId(payloads[j])}}}

\* a table given out of date order, with a row without id, after cleaning
C7_Witness ==
    /\ dpc = "clean" /\ via = "df"
    /\ Len(df.rows) >= 3 /\ Len(df.rows) < Len(payloads)
    /\ \E i \in 1..(Len(payloads) - 1) : \E j \in (i + 1)..Len(payloads) :
          /\ HasId(payloads[i]) /\ HasId(payloads[j])
          /\ payloads[i].dailySleepDTO["calendarDate"][1]
               > payloads[j].dailySleepDTO["calendarDate"][1]

\* payloads of 8 consecutive days, day 3 with a null id
EightDays == [i \in 1..8 |-> Payload(IF i = 3 THEN "nullid" ELSE "asc", i)]

\* C8: 8 consecutive days with a null id on day 3, flattened and cleaned,
\* give 7 rows, and the 7th row, the last day, has a rolling mean.
C8_EightDaysOneMissing ==
    (Cleaned /\ via = "dto_to_df" /\ payloads = EightDays) =>
        /\ Len(df.rows) = 7
        /\ df.rows[7].date = Some([day |-> 8, sec |-> 0])
        /\ df.rows[7].rm_bedtime /= Null

C8_Witness ==
    /\ dpc = "clean" /\ via = "dto_to_df" /\ payloads = EightDays
    /\ Len(df.rows) = 7 /\ df.rows[7].rm_bedtime /= Null

\* C9: the formatters return the empty string for a missing value, whatever
\* the date, so the hover text of a row whose rolling mean is missing (the
\* first 6 rows) is empty.
C9_NullSafeFormatters ==
    /\ format_timedelta(Null) = ""
    /\ \A d \in Datetimes : format_relative_seconds(Null, d) = ""
    /\ dpc = "traced" =>
          \A i \in 1..Len(df.rows) :
             /\ df.rows[i].rm_wakeup = Null => hover.avg_wakeup[i] = ""
             /\ df.rows[i].rm_bedtime = Null => hover.avg_bedtime[i] = ""
             /\ df.rows[i].sleeptime = Null => hover.sleep_time[i] = ""
             /\ i <= 6 => hover.avg_wakeup[i] = "" /\ hover.avg_bedtime[i] = ""

\* traces of a table of 7 rows: no text for row 6, a time for row 7
C9_Witness ==
    /\ dpc = "traced" /\ Len(df.rows) >= 7
    /\ df.rows[6].rm_bedtime = Null /\ hover.avg_bedtime[6] = ""
    /\ hover.avg_bedtime[7] /= ""

====
